---- MODULE Spec2Model ----
(***************************************************************************)
(* Model of greeksTest.py: a command-line probe that fetches an options    *)
(* chain snapshot over HTTP and prints it.                                 *)
(*                                                                         *)
(* Two specifications are given.  Spec is one run of the script (the       *)
(* __main__ block and everything it calls).  SpecClient is one call of     *)
(* get_options_chain_snapshot by an arbitrary caller, with the ticker and  *)
(* the keyword filters drawn from bounded sets.                            *)
(*                                                                         *)
(* JSON values are records: a scalar is [t, v] with t in "str", "num",     *)
(* "null" and v its printed form; a mapping is [t |-> "map", m |-> f] with *)
(* f a function whose DOMAIN is the set of keys present; a list is         *)
(* [t |-> "list", items |-> sequence].  An absent key is a key outside     *)
(* DOMAIN, so dict.get with a default is an operator that can be checked.  *)
(***************************************************************************)
EXTENDS Integers, Sequences, FiniteSets, TLC

VARIABLES
    pc,         \* position of the program
    ticker,     \* underlying_ticker argument of the call
    kwargs,     \* **kwargs of the call: function from filter names to values
    url,        \* the url handed to requests.get
    params,     \* the params handed to requests.get
    nreq,       \* number of requests.get calls made so far
    resp,       \* the response object returned by requests.get
    data,       \* the value returned by get_options_chain_snapshot
    idx,        \* index of the next element of results in the for loop
    out,        \* standard output: the sequence of lines printed
    exc,        \* the exception raised last, [cls, detail]
    exit        \* exit status of the process: {} while it runs, {status} after

vars == <<pc, ticker, kwargs, url, params, nreq, resp, data, idx, out, exc, exit>>

(***************************************************************************)
(* Bounds of the model.                                                    *)
(***************************************************************************)
\* Longest results sequence the upstream returns in the model.
MaxResults == 2

\* Width of the "-" and "=" separator lines.
SepWidth == 80

\* The configuration read from the environment at import.
API_KEY == "secret-key"
BASE_URL == "https://api.massive.test"

(***************************************************************************)
(* JSON values and Python's view of them.                                  *)
(***************************************************************************)
StrV(s) == [t |-> "str", v |-> s]
NumV(s) == [t |-> "num", v |-> s]
NullV == [t |-> "null", v |-> "None"]
MapV(f) == [t |-> "map", m |-> f]
ListV(s) == [t |-> "list", items |-> s]
EmptyMap == [k \in {} |-> NullV]

\* The default handed to dict.get in the renderer: the string 'N/A'.
NA == StrV("N/A")

\* d.get(k, default) on a mapping d.
Get(d, k, default) == IF k \in DOMAIN d.m THEN d.m[k] ELSE default

\* Whether Python finds attribute .get on the value (only dict has it).
HasGet(x) == x.t = "map"

\* Truthiness of a value as tested by "if x:".
Truthy(x) ==
    CASE x.t = "map" -> DOMAIN x.m # {}
      [] x.t = "list" -> x.items # <<>>
      [] x.t = "null" -> FALSE
      [] x.t = "str" -> x.v # ""
      [] OTHER -> x.v # "0"

\* str(x) as an f-string field formats a scalar.
Fmt(x) == x.v

\* str.upper() on the strings of the model.
UpperStr(s) ==
    CASE s = "call" -> "CALL"
      [] s = "put" -> "PUT"
      [] s = "Call" -> "CALL"
      [] s = "N/A" -> "N/A"
      [] OTHER -> s

(***************************************************************************)
(* Lines of standard output.  by names the function whose print wrote the  *)
(* line, label is the text of the f-string with {} for each field, args    *)
(* the formatted fields.                                                   *)
(***************************************************************************)
Line(by, label, args) == [by |-> by, label |-> label, args |-> args]

\* print(ch * 80)
SepLine(by, ch) == Line(by, "{}*{}", <<ch, ToString(SepWidth)>>)

\* print() and the blank line a trailing "\n" produces.
BlankLine(by) == Line(by, "", <<>>)

(***************************************************************************)
(* What the upstream can answer.  The snapshot documents are JSON objects  *)
(* (the client's docstring: "Returns: dict"); inside them any key may be   *)
(* absent and any value may be JSON null, and contract_type may be a       *)
(* number, since the upstream is not under the program's control.          *)
(***************************************************************************)
\* Marks a key to leave out when a mapping is built.
Absent == [t |-> "absent", v |-> ""]

\* The mapping holding the keys of f whose value is not Absent.
MkMap(f) == MapV([k \in {j \in DOMAIN f : f[j] # Absent} |-> f[k]])

DetailsFull(ct) ==
    MapV([ticker |-> StrV("O:AAPL250117C00150000"), contract_type |-> ct,
          strike_price |-> NumV("150"), expiration_date |-> StrV("2025-01-17"),
          exercise_style |-> StrV("american")])

GreeksFull ==
    MapV([delta |-> NumV("0.5"), gamma |-> NumV("0.02"),
          theta |-> NumV("-0.03"), vega |-> NumV("0.1")])

QuoteFull == MapV([bid |-> NumV("5.1"), ask |-> NumV("5.3")])

TradeFull == MapV([price |-> NumV("5.2"), size |-> NumV("10")])

MkContract(d, g, q, tr, iv, oi) ==
    MkMap([details |-> d, greeks |-> g, last_quote |-> q, last_trade |-> tr,
           implied_volatility |-> iv, open_interest |-> oi])

\* The contract of scenario S1, every field present.
FullContract ==
    MkContract(DetailsFull(StrV("call")), GreeksFull, QuoteFull, TradeFull,
               NumV("0.25"), NumV("1234"))

DetailsVariants ==
    {Absent, NullV, MapV(EmptyMap), DetailsFull(StrV("put")), DetailsFull(NullV),
     DetailsFull(NumV("1")), MapV([ticker |-> StrV("O:AAPL250117P00150000")])}

GreeksVariants == {Absent, NullV, MapV(EmptyMap), MapV([delta |-> NumV("0.5")])}

QuoteVariants == {Absent, NullV, MapV(EmptyMap), MapV([bid |-> NumV("5.1")])}

TradeVariants == {Absent, MapV(EmptyMap), MapV([size |-> NumV("10")])}

ScalarVariants == {Absent, NullV}

\* The contracts of the model: the full contract, the full contract with one
\* field varied, the contract of scenario S2 and the empty contract.
Contracts ==
    {FullContract}
    \cup {MkContract(d, GreeksFull, QuoteFull, TradeFull, NumV("0.25"), NumV("1234")) :
            d \in DetailsVariants}
    \cup {MkContract(DetailsFull(StrV("call")), g, QuoteFull, TradeFull, NumV("0.25"),
                     NumV("1234")) : g \in GreeksVariants}
    \cup {MkContract(DetailsFull(StrV("call")), GreeksFull, q, TradeFull, NumV("0.25"),
                     NumV("1234")) : q \in QuoteVariants}
    \cup {MkContract(DetailsFull(StrV("call")), GreeksFull, QuoteFull, tr, NumV("0.25"),
                     NumV("1234")) : tr \in TradeVariants}
    \cup {MkContract(DetailsFull(StrV("call")), GreeksFull, QuoteFull, TradeFull, iv,
                     NumV("1234")) : iv \in ScalarVariants}
    \cup {MkContract(DetailsFull(StrV("call")), GreeksFull, QuoteFull, TradeFull,
                     NumV("0.25"), Absent)}
    \cup {MkContract(DetailsFull(StrV("call")), Absent, Absent, Absent, NumV("0.25"),
                     NumV("1234")),
          MkContract(Absent, Absent, Absent, Absent, Absent, Absent)}

\* Sequences of contracts of length at most n.
RECURSIVE SeqsUpTo(_)
SeqsUpTo(n) ==
    IF n = 0 THEN {<<>>}
    ELSE LET shorter == SeqsUpTo(n - 1)
         IN shorter \cup {Append(s, c) : s \in {x \in shorter : Len(x) = n - 1},
                                         c \in Contracts}

ResultsValues == {Absent, NullV} \cup {ListV(s) : s \in SeqsUpTo(MaxResults)}

\* The snapshot documents of the model.
Documents ==
    {MkMap([status |-> st, request_id |-> rid, results |-> rs]) :
        st \in {Absent, StrV("OK")}, rid \in {Absent, StrV("abc")}, rs \in ResultsValues}

\* What response.json() yields for a body that is not JSON.
Undecodable == [t |-> "undecodable", v |-> ""]

\* A response body: raw is response.text, parsed what the JSON decoder makes of it.
Body(raw, parsed) == [raw |-> raw, parsed |-> parsed]

\* HTTP status codes the upstream answers with: a success carrying a body,
\* answers below 400 that carry none, and client and server errors.
OkStatuses == {200}
NoBodyStatuses == {204, 304}
ErrorStatuses == {400, 401, 404, 500}

Response(status, body) == [status |-> status, body |-> body]

\* The responses requests.get can return.
Responses ==
    {Response(s, Body("<snapshot json>", d)) : s \in OkStatuses, d \in Documents}
    \cup {Response(s, Body("<html>not json</html>", Undecodable)) : s \in OkStatuses}
    \cup {Response(s, Body("", Undecodable)) : s \in NoBodyStatuses}
    \cup {Response(s, Body("{\"error\":\"bad key\"}", MapV(EmptyMap))) : s \in ErrorStatuses}
    \cup {Response(s, Body("", Undecodable)) : s \in ErrorStatuses}

NoResponse == Response(0, Body("", Undecodable))
NoData == [t |-> "unset", v |-> ""]

(***************************************************************************)
(* Exceptions.  Bases gives, for each exception class the program meets,   *)
(* the classes an except clause matches it under.                          *)
(***************************************************************************)
Exc(cls, detail) == [cls |-> cls, detail |-> detail]
NoExc == Exc("none", "")

Bases(cls) ==
    CASE cls = "HTTPError" -> {"HTTPError", "RequestException", "Exception", "BaseException"}
      [] cls = "ConnectionError" -> {"ConnectionError", "RequestException", "Exception",
                                      "BaseException"}
      [] cls = "JSONDecodeError" -> {"JSONDecodeError", "RequestException", "Exception",
                                      "BaseException"}
      [] cls = "AttributeError" -> {"AttributeError", "Exception", "BaseException"}
      [] cls = "TypeError" -> {"TypeError", "Exception", "BaseException"}
      [] cls = "KeyboardInterrupt" -> {"KeyboardInterrupt", "BaseException"}
      [] OTHER -> {}

IsInstance(e, cls) == cls \in Bases(e.cls)

\* The process has not exited.
NotExited == {}

(***************************************************************************)
(* get_options_chain_snapshot (lines 12-31).                               *)
(***************************************************************************)
\* The f-string of line 23, as the sequence of its pieces.
BuildUrl(t) == <<BASE_URL, "/snapshot/options/", t>>

\* Lines 25-26: {"apiKey": API_KEY} updated with kwargs.  dict.update lets
\* the value of kwargs win for a key both hold.
BuildParams(kw) ==
    [k \in {"apiKey"} \cup DOMAIN kw |-> IF k \in DOMAIN kw THEN kw[k] ELSE API_KEY]

\* Binding the call's arguments (line 12): a keyword named like the
\* positional parameter is a TypeError, raised before the body runs.
BindsArguments(kw) == "underlying_ticker" \notin DOMAIN kw

\* The call, up to the request being ready (lines 12-26).
BuildRequest ==
    /\ pc = "call"
    /\ IF BindsArguments(kwargs)
       THEN /\ url' = BuildUrl(ticker)
            /\ params' = BuildParams(kwargs)
            /\ pc' = "built"
            /\ exc' = exc
       ELSE /\ exc' = Exc("TypeError", "got multiple values for argument 'underlying_ticker'")
            /\ pc' = "raised"
            /\ UNCHANGED <<url, params>>
    /\ UNCHANGED <<ticker, kwargs, nreq, resp, data, idx, out, exit>>

\* What requests.get raises instead of returning: a transport failure, or
\* the interrupt of the blocking call from outside the process.
GetFailures ==
    {Exc("ConnectionError", "Max retries exceeded with url"),
     Exc("KeyboardInterrupt", "")}

\* requests.get(url, params=params) (line 28).
HttpGet ==
    /\ pc = "built"
    /\ nreq' = nreq + 1
    /\ \/ \E r \in Responses :
            /\ resp' = r
            /\ pc' = "responded"
            /\ exc' = exc
       \/ \E e \in GetFailures :
            /\ exc' = e
            /\ pc' = "raised"
            /\ resp' = resp
    /\ UNCHANGED <<ticker, kwargs, url, params, data, idx, out, exit>>

\* Whether Response.raise_for_status raises: a 4xx or a 5xx status.
RaisesForStatus(r) == r.status >= 400 /\ r.status < 600

\* str() of the HTTPError raise_for_status builds.
HttpErrorDetail(r) ==
    ToString(r.status) \o (IF r.status < 500 THEN " Client Error" ELSE " Server Error")

\* response.raise_for_status() (line 29).
RaiseForStatus ==
    /\ pc = "responded"
    /\ IF RaisesForStatus(resp)
       THEN /\ exc' = Exc("HTTPError", HttpErrorDetail(resp))
            /\ pc' = "raised"
       ELSE /\ pc' = "checked"
            /\ exc' = exc
    /\ UNCHANGED <<ticker, kwargs, url, params, nreq, resp, data, idx, out, exit>>

\* return response.json() (line 31).
ParseJson ==
    /\ pc = "checked"
    /\ IF resp.body.parsed = Undecodable
       THEN /\ exc' = Exc("JSONDecodeError", "Expecting value: line 1 column 1 (char 0)")
            /\ pc' = "raised"
            /\ data' = data
       ELSE /\ data' = resp.body.parsed
            /\ pc' = "returned"
            /\ exc' = exc
    /\ UNCHANGED <<ticker, kwargs, url, params, nreq, resp, idx, out, exit>>

(***************************************************************************)
(* print_options_chain (lines 34-70).                                      *)
(***************************************************************************)
Renderer == "print_options_chain"
Driver == "main"

\* One print statement of the loop body: whether it runs without raising,
\* the line it prints, and str() of the AttributeError it raises otherwise.
Stmt(ok, label, args, err) ==
    [ok |-> ok, line |-> Line(Renderer, label, args), err |-> err]

\* The formatted value of m.get(k, 'N/A'); m.get raises when m has no .get.
Field(m, k) == IF HasGet(m) THEN Fmt(Get(m, k, NA)) ELSE ""

NoGetErr == "'NoneType' object has no attribute 'get'"
NoUpperErr == "object has no attribute 'upper'"

\* A line printing one field of mapping m.
FieldStmt(m, k, label) == Stmt(HasGet(m), label, <<Field(m, k)>>, NoGetErr)

\* Line 50: details.get('contract_type', 'N/A').upper()
TypeStmt(details) ==
    LET ct == IF HasGet(details) THEN Get(details, "contract_type", NA) ELSE NA
    IN Stmt(HasGet(details) /\ ct.t = "str", "  Type: {}", <<UpperStr(Fmt(ct))>>,
            IF HasGet(details) THEN NoUpperErr ELSE NoGetErr)

\* Lines 64-65 and 67-68: the line is printed only if the mapping is truthy.
QuoteStmts(last_quote) ==
    IF Truthy(last_quote)
    THEN <<Stmt(HasGet(last_quote), "  Last Quote: Bid ${} / Ask ${}",
                <<Field(last_quote, "bid"), Field(last_quote, "ask")>>, NoGetErr)>>
    ELSE <<>>

TradeStmts(last_trade) ==
    IF Truthy(last_trade)
    THEN <<Stmt(HasGet(last_trade), "  Last Trade: ${} ({} contracts)",
                <<Field(last_trade, "price"), Field(last_trade, "size")>>, NoGetErr)>>
    ELSE <<>>

\* The print statements one iteration of the loop runs, in order (lines 44-70).
BlockStmts(option) ==
    LET details == Get(option, "details", MapV(EmptyMap))
        greeks == Get(option, "greeks", MapV(EmptyMap))
        last_quote == Get(option, "last_quote", MapV(EmptyMap))
        last_trade == Get(option, "last_trade", MapV(EmptyMap))
    IN <<FieldStmt(details, "ticker", "Contract: {}"),
         TypeStmt(details),
         FieldStmt(details, "strike_price", "  Strike: ${}"),
         FieldStmt(details, "expiration_date", "  Expiration: {}"),
         FieldStmt(details, "exercise_style", "  Exercise Style: {}"),
         Stmt(TRUE, "  Greeks:", <<>>, ""),
         FieldStmt(greeks, "delta", "    Delta: {}"),
         FieldStmt(greeks, "gamma", "    Gamma: {}"),
         FieldStmt(greeks, "theta", "    Theta: {}"),
         FieldStmt(greeks, "vega", "    Vega:  {}"),
         FieldStmt(option, "implied_volatility", "  Implied Volatility: {}"),
         FieldStmt(option, "open_interest", "  Open Interest: {}")>>
       \o QuoteStmts(last_quote)
       \o TradeStmts(last_trade)
       \o <<Stmt(TRUE, "", <<>>, "")>>

\* Index of the first statement that raises, Len + 1 if none does.
FirstRaising(stmts) ==
    LET bad == {i \in 1..Len(stmts) : ~stmts[i].ok}
    IN IF bad = {} THEN Len(stmts) + 1 ELSE CHOOSE i \in bad : \A j \in bad : i <= j

\* One iteration of the loop: the lines printed before the first statement
\* that raises, and the exception if one does.
RenderBlock(option) ==
    LET stmts == BlockStmts(option)
        n == FirstRaising(stmts)
    IN [lines |-> [i \in 1..(n - 1) |-> stmts[i].line],
        exc |-> IF n > Len(stmts) THEN NoExc ELSE Exc("AttributeError", stmts[n].err)]

\* Mutant of HeaderLines: a header line is printed only for a field the
\* document holds.
HeaderLinesIfPresent(d) ==
    (IF "status" \in DOMAIN d.m
     THEN <<Line(Renderer, "Status: {}", <<Fmt(d.m["status"])>>)>> ELSE <<>>)
    \o (IF "request_id" \in DOMAIN d.m
        THEN <<Line(Renderer, "Request ID: {}", <<Fmt(d.m["request_id"])>>)>> ELSE <<>>)
    \o <<SepLine(Renderer, "-")>>

\* Lines 36-38.
HeaderLines(d) ==
    <<Line(Renderer, "Status: {}", <<Fmt(Get(d, "status", NullV))>>),
      Line(Renderer, "Request ID: {}", <<Fmt(Get(d, "request_id", NullV))>>),
      SepLine(Renderer, "-")>>

\* results = data.get("results", []) (line 40).
ResultsOf(d) == Get(d, "results", ListV(<<>>))

\* Whether len() accepts the value.
HasLen(x) == x.t \in {"list", "map", "str"}

\* Line 41: the f-string ends in "\n", so a blank line follows.
TotalLines(n) ==
    <<Line(Renderer, "Total contracts returned: {}", <<ToString(n)>>), BlankLine(Renderer)>>

\* print_options_chain up to the loop (lines 36-41).
PrintHeader ==
    /\ pc = "returned"
    /\ LET results == ResultsOf(data)
       IN IF HasLen(results)
          THEN /\ out' = out \o HeaderLines(data) \o TotalLines(Len(results.items))
               /\ idx' = 1
               /\ pc' = "loop"
               /\ exc' = exc
          ELSE /\ out' = out \o HeaderLines(data)
               /\ exc' = Exc("TypeError", "object of type 'NoneType' has no len()")
               /\ pc' = "raised"
               /\ idx' = idx
    /\ UNCHANGED <<ticker, kwargs, url, params, nreq, resp, data, exit>>

\* One iteration of the for loop (lines 43-70).
RenderContract ==
    /\ pc = "loop"
    /\ idx <= Len(ResultsOf(data).items)
    /\ LET r == RenderBlock(ResultsOf(data).items[idx])
       IN /\ out' = out \o r.lines
          /\ IF r.exc = NoExc
             THEN /\ idx' = idx + 1
                  /\ pc' = pc
                  /\ exc' = exc
             ELSE /\ exc' = r.exc
                  /\ pc' = "raised"
                  /\ idx' = idx
    /\ UNCHANGED <<ticker, kwargs, url, params, nreq, resp, data, exit>>

(***************************************************************************)
(* The driver (lines 73-99).                                               *)
(***************************************************************************)
\* Lines 77-78.
Banner ==
    /\ pc = "start"
    /\ out' = out \o <<Line(Driver, "Fetching options chain snapshot for {}...", <<ticker>>),
                       SepLine(Driver, "=")>>
    /\ pc' = "call"
    /\ UNCHANGED <<ticker, kwargs, url, params, nreq, resp, data, idx, exc, exit>>

\* Lines 90-93.
DumpLines(d) ==
    <<SepLine(Driver, "="), Line(Driver, "Raw JSON Response:", <<>>), SepLine(Driver, "="),
      Line(Driver, "json.dumps", <<d>>)>>

\* Mutant of ExitStatus: the status is 0 whatever ended the script.
ExitStatusZero(e) == 0

\* The exit status of the interpreter: 0 when the script runs to its end,
\* non-zero when an exception leaves the module.
ExitStatus(e) ==
    IF e = NoExc THEN 0 ELSE IF e.cls = "KeyboardInterrupt" THEN 130 ELSE 1

\* The loop is over: print_options_chain returns, the driver prints the dump
\* (lines 90-93) and the script ends.
RawDump ==
    /\ pc = "loop"
    /\ idx > Len(ResultsOf(data).items)
    /\ out' = out \o DumpLines(data)
    /\ exit' = {ExitStatus(NoExc)}
    /\ pc' = "exited"
    /\ UNCHANGED <<ticker, kwargs, url, params, nreq, resp, data, idx, exc>>

\* Mutant of HandlerFor: the generic clause is tried first.
HandlerForGenericFirst(e) ==
    IF IsInstance(e, "Exception") THEN "other"
    ELSE IF IsInstance(e, "HTTPError") THEN "http"
    ELSE "none"

\* Mutant of HandlerFor: the first clause names RequestException, the base
\* class of HTTPError.
HandlerForRequestException(e) ==
    IF IsInstance(e, "RequestException") THEN "http"
    ELSE IF IsInstance(e, "Exception") THEN "other"
    ELSE "none"

\* The except clause that takes the exception: the clauses are tried in the
\* order of the source (lines 95 and 98).
HandlerFor(e) ==
    IF IsInstance(e, "HTTPError") THEN "http"
    ELSE IF IsInstance(e, "Exception") THEN "other"
    ELSE "none"

\* Lines 95-97.
HandleHTTPError ==
    /\ pc = "raised"
    /\ HandlerFor(exc) = "http"
    /\ out' = out \o <<Line(Driver, "HTTP Error: {}", <<exc.detail>>),
                       Line(Driver, "Response: {}", <<resp.body.raw>>)>>
    /\ exit' = {ExitStatus(NoExc)}
    /\ pc' = "exited"
    /\ UNCHANGED <<ticker, kwargs, url, params, nreq, resp, data, idx, exc>>

\* Mutant of HandleException: the failure is reported and the request is
\* made again.
HandleExceptionRetry ==
    /\ pc = "raised"
    /\ IsInstance(exc, "Exception") /\ ~IsInstance(exc, "HTTPError")
    /\ out' = out \o <<Line(Driver, "Error: {}", <<exc.detail>>)>>
    /\ pc' = "built"
    /\ UNCHANGED <<ticker, kwargs, url, params, nreq, resp, data, idx, exc, exit>>

\* Lines 98-99.
HandleException ==
    /\ pc = "raised"
    /\ HandlerFor(exc) = "other"
    /\ out' = out \o <<Line(Driver, "Error: {}", <<exc.detail>>)>>
    /\ exit' = {ExitStatus(NoExc)}
    /\ pc' = "exited"
    /\ UNCHANGED <<ticker, kwargs, url, params, nreq, resp, data, idx, exc>>

\* No except clause matches: the exception leaves the module.
Unhandled ==
    /\ pc = "raised"
    /\ HandlerFor(exc) = "none"
    /\ exit' = {ExitStatus(exc)}
    /\ pc' = "exited"
    /\ UNCHANGED <<ticker, kwargs, url, params, nreq, resp, data, idx, out, exc>>

(***************************************************************************)
(* Spec: one run of the script.                                            *)
(***************************************************************************)
Init ==
    /\ pc = "start"
    /\ ticker = "AAPL"
    /\ kwargs = [limit |-> "10"]
    /\ url = <<>>
    /\ params = <<>>
    /\ nreq = 0
    /\ resp = NoResponse
    /\ data = NoData
    /\ idx = 0
    /\ out = <<>>
    /\ exc = NoExc
    /\ exit = NotExited

Next ==
    \/ Banner
    \/ BuildRequest
    \/ HttpGet
    \/ RaiseForStatus
    \/ ParseJson
    \/ PrintHeader
    \/ RenderContract
    \/ RawDump
    \/ HandleHTTPError
    \/ HandleException
    \/ Unhandled

Spec == Init /\ [][Next]_vars

(***************************************************************************)
(* SpecClient: one call of get_options_chain_snapshot by any caller.       *)
(***************************************************************************)
Tickers == {"AAPL", "aapl"}

\* Filter names a caller may pass, with the value passed under each.
FilterValue ==
    [limit |-> "10", strike_price |-> "150", contract_type |-> "put",
     sort |-> "ticker", apiKey |-> "other-key", underlying_ticker |-> "MSFT"]

\* Largest number of filters a caller passes in the model.
MaxFilters == 2

FilterSets ==
    {[k \in S |-> FilterValue[k]] :
        S \in {T \in SUBSET DOMAIN FilterValue : Cardinality(T) <= MaxFilters}}

InitClient ==
    /\ pc = "call"
    /\ ticker \in Tickers
    /\ kwargs \in FilterSets
    /\ url = <<>>
    /\ params = <<>>
    /\ nreq = 0
    /\ resp = NoResponse
    /\ data = NoData
    /\ idx = 0
    /\ out = <<>>
    /\ exc = NoExc
    /\ exit = NotExited

NextClient ==
    \/ BuildRequest
    \/ HttpGet
    \/ RaiseForStatus
    \/ ParseJson

SpecClient == InitClient /\ [][NextClient]_vars

(***************************************************************************)
(* Vocabulary of the properties.                                           *)
(***************************************************************************)
\* Positions of the lines of standard output printed with the given f-string.
Positions(label) == {i \in 1..Len(out) : out[i].label = label}

CountLabel(label) == Cardinality(Positions(label))

\* The lines print_options_chain wrote, in order.
RenderOut == SelectSeq(out, LAMBDA l : l.by = Renderer)

\* get_options_chain_snapshot has returned a document to the driver.
Returned == data # NoData

\* len(results), 0 when results is missing (or has no length).
NResults(d) == IF HasLen(ResultsOf(d)) THEN Len(ResultsOf(d).items) ELSE 0

\* The upstream answered below 400 with a body that decodes.
SuccessfulResponse == resp.status >= 200 /\ resp.status < 400 /\ resp.body.parsed # Undecodable

\* The error reports of the driver.
HttpReports == Positions("HTTP Error: {}")
OtherReports == Positions("Error: {}")
DumpPositions == Positions("json.dumps")

\* Position in out of the i-th "Contract:" line.
NthStart(i) ==
    CHOOSE p \in Positions("Contract: {}") :
        Cardinality({q \in Positions("Contract: {}") : q < p}) = i - 1

\* Last position of out written by print_options_chain.
LastRendered ==
    LET ps == {i \in 1..Len(out) : out[i].by = Renderer}
    IN CHOOSE p \in ps : \A q \in ps : q <= p

\* The block of the i-th contract: the lines from its "Contract:" line up to
\* the next block (or the end of the rendering); empty if it was never begun.
Block(i) ==
    IF i > CountLabel("Contract: {}") THEN <<>>
    ELSE SubSeq(out, NthStart(i),
                IF i < CountLabel("Contract: {}") THEN NthStart(i + 1) - 1 ELSE LastRendered)

CountIn(lines, label) == Cardinality({i \in 1..Len(lines) : lines[i].label = label})

\* The fields of the first line of lines printed with the given f-string.
ArgsIn(lines, label) ==
    lines[CHOOSE i \in 1..Len(lines) : lines[i].label = label /\
            \A j \in 1..Len(lines) : lines[j].label = label => i <= j].args

\* The eleven fixed labels: the f-string, the sub-mapping ("" for the contract
\* itself) and the key each one shows.
FixedFields ==
    <<[label |-> "Contract: {}", sub |-> "details", key |-> "ticker"],
      [label |-> "  Type: {}", sub |-> "details", key |-> "contract_type"],
      [label |-> "  Strike: ${}", sub |-> "details", key |-> "strike_price"],
      [label |-> "  Expiration: {}", sub |-> "details", key |-> "expiration_date"],
      [label |-> "  Exercise Style: {}", sub |-> "details", key |-> "exercise_style"],
      [label |-> "    Delta: {}", sub |-> "greeks", key |-> "delta"],
      [label |-> "    Gamma: {}", sub |-> "greeks", key |-> "gamma"],
      [label |-> "    Theta: {}", sub |-> "greeks", key |-> "theta"],
      [label |-> "    Vega:  {}", sub |-> "greeks", key |-> "vega"],
      [label |-> "  Implied Volatility: {}", sub |-> "", key |-> "implied_volatility"],
      [label |-> "  Open Interest: {}", sub |-> "", key |-> "open_interest"]>>

\* The received value of a field of a contract: what the document holds
\* under sub.key, the sentinel when the key or its sub-mapping is absent.
Received(option, sub, key) ==
    LET m == IF sub = "" THEN option
             ELSE IF sub \in DOMAIN option.m THEN option.m[sub] ELSE MapV(EmptyMap)
    IN IF m.t = "map" /\ key \in DOMAIN m.m THEN m.m[key] ELSE NA

\* A sub-mapping that is present, a mapping, and not empty.
PresentNonEmpty(option, sub) ==
    /\ sub \in DOMAIN option.m
    /\ option.m[sub].t = "map"
    /\ DOMAIN option.m[sub].m # {}

(***************************************************************************)
(* Properties.                                                             *)
(***************************************************************************)
\* A request has been built by get_options_chain_snapshot.
RequestBuilt == pc = "built" \/ nreq >= 1

\* C1: for every ticker and every set of filters, the request targets
\* {base_url}/snapshot/options/{ticker} with the ticker verbatim, and its
\* query parameters hold apiKey equal to the configured key and every
\* supplied filter under its name and value.
C1_RequestCarriesKeyAndFilters ==
    RequestBuilt =>
        /\ url = <<BASE_URL, "/snapshot/options/", ticker>>
        /\ "apiKey" \in DOMAIN params
        /\ params["apiKey"] = API_KEY
        /\ \A k \in DOMAIN kwargs : k \in DOMAIN params /\ params[k] = kwargs[k]

\* What holds of the request whatever the filters: the url, every filter
\* under its name and value, and the configured key unless a filter is
\* itself named apiKey.
RequestForwardsFilters ==
    RequestBuilt =>
        /\ url = <<BASE_URL, "/snapshot/options/", ticker>>
        /\ DOMAIN params = {"apiKey"} \cup DOMAIN kwargs
        /\ \A k \in DOMAIN kwargs : params[k] = kwargs[k]
        /\ "apiKey" \notin DOMAIN kwargs => params["apiKey"] = API_KEY

\* C2: when the upstream answers with a status >= 400 the client raises
\* HTTPError and returns no document; the driver prints an "HTTP Error:"
\* line followed by a "Response:" line carrying the raw body, and prints
\* no header, no contract block and no raw dump.
C2_HttpErrorReported ==
    resp.status >= 400 =>
        /\ ~Returned
        /\ RenderOut = <<>>
        /\ DumpPositions = {}
        /\ pc \in {"raised", "exited"} => exc.cls = "HTTPError"
        /\ pc = "exited" =>
            /\ Len(out) = 4
            /\ out[3].label = "HTTP Error: {}"
            /\ out[3].args = <<exc.detail>>
            /\ out[4].label = "Response: {}"
            /\ out[4].args = <<resp.body.raw>>

C2_Witness ==
    /\ pc = "exited"
    /\ resp.status = 401
    /\ resp.body.raw = "{\"error\":\"bad key\"}"
    /\ out[Len(out)].label = "Response: {}"

\* C3: for all responses, the number of contract blocks written equals
\* len(results) (0 when results is missing), one block per element in the
\* order of results, and the "Total contracts returned:" line reports that
\* number.
C3_BlockPerResult ==
    (pc = "exited" /\ Returned) =>
        /\ CountLabel("Contract: {}") = NResults(data)
        /\ CountLabel("Total contracts returned: {}") = 1
        /\ \A i \in Positions("Total contracts returned: {}") :
              out[i].args = <<ToString(NResults(data))>>
        /\ \A i \in 1..NResults(data) :
              Block(i) # <<>> /\
              Block(i)[1].args = <<Fmt(Received(ResultsOf(data).items[i], "details", "ticker"))>>

\* C4: for every contract in results, whichever of its fields and
\* sub-mappings are absent, the renderer does not abort and the contract's
\* block holds each of the eleven fixed labels exactly once, with the
\* received value (upper-cased for Type, as line 50 prints it) when the
\* field is present and N/A when it is absent.
C4_ElevenLabels ==
    (pc = "exited" /\ Returned) =>
        /\ ~IsInstance(exc, "AttributeError")
        /\ \A i \in 1..NResults(data) : \A f \in 1..Len(FixedFields) :
              LET fld == FixedFields[f]
                  v == Fmt(Received(ResultsOf(data).items[i], fld.sub, fld.key))
              IN /\ CountIn(Block(i), fld.label) = 1
                 /\ ArgsIn(Block(i), fld.label) =
                        <<IF fld.key = "contract_type" THEN UpperStr(v) ELSE v>>

\* C5: for every contract, a "Last Quote:" line is in its block iff its
\* last_quote sub-mapping is present and non-empty, a "Last Trade:" line
\* iff its last_trade sub-mapping is present and non-empty, and a missing
\* bid, ask, price or size in such a line is printed as N/A.
C5_QuoteTradeLines ==
    (pc = "exited" /\ Returned) =>
        \A i \in 1..NResults(data) :
            LET option == ResultsOf(data).items[i]
                quote == "  Last Quote: Bid ${} / Ask ${}"
                trade == "  Last Trade: ${} ({} contracts)"
            IN /\ CountIn(Block(i), quote) =
                      (IF PresentNonEmpty(option, "last_quote") THEN 1 ELSE 0)
               /\ CountIn(Block(i), trade) =
                      (IF PresentNonEmpty(option, "last_trade") THEN 1 ELSE 0)
               /\ CountIn(Block(i), quote) = 1 =>
                      ArgsIn(Block(i), quote) =
                          <<Fmt(Received(option, "last_quote", "bid")),
                            Fmt(Received(option, "last_quote", "ask"))>>
               /\ CountIn(Block(i), trade) = 1 =>
                      ArgsIn(Block(i), trade) =
                          <<Fmt(Received(option, "last_trade", "price")),
                            Fmt(Received(option, "last_trade", "size"))>>

\* print_options_chain has been entered and has left its first statements.
HeaderDone == Returned /\ pc # "returned"

\* C6: for all responses, whether or not status and request_id are present,
\* the output of print_options_chain begins with exactly one "Status:" line
\* followed by exactly one "Request ID:" line, and no other such line is
\* written anywhere in the run.
C6_HeaderOnce ==
    /\ ~HeaderDone => CountLabel("Status: {}") = 0 /\ CountLabel("Request ID: {}") = 0
    /\ HeaderDone =>
        /\ Len(RenderOut) >= 2
        /\ RenderOut[1].label = "Status: {}"
        /\ RenderOut[1].args =
              <<IF "status" \in DOMAIN data.m THEN data.m["status"].v ELSE "None">>
        /\ RenderOut[2].label = "Request ID: {}"
        /\ RenderOut[2].args =
              <<IF "request_id" \in DOMAIN data.m THEN data.m["request_id"].v ELSE "None">>
        /\ CountLabel("Status: {}") = 1
        /\ CountLabel("Request ID: {}") = 1

C6_Witness ==
    /\ pc = "exited"
    /\ Returned
    /\ DOMAIN data.m = {"results"}
    /\ NResults(data) = MaxResults
    /\ exc = NoExc
    /\ CountLabel("Status: {}") = 1

\* C7: in every run, whatever the upstream answers, exactly one HTTP GET is
\* issued: none is repeated after a failure, none follows a success.
C7_SingleGet ==
    /\ nreq <= 1
    /\ pc \in {"start", "call", "built"} => nreq = 0
    /\ pc \in {"responded", "checked", "returned", "loop", "raised", "exited"} => nreq = 1

C7_Witness ==
    /\ pc = "exited"
    /\ exc.cls = "ConnectionError"
    /\ CountLabel("Error: {}") = 1
    /\ nreq = 1

\* The labels of out from position a to position b.
LabelsFrom(a, b) == [i \in 1..(b - a + 1) |-> out[a + i - 1].label]

\* C8: on a successful response the output is, in order, the header
\* (Status, Request ID, 80 dashes, Total contracts returned), all contract
\* blocks, 80 "=", "Raw JSON Response:", 80 "=", and the serialized
\* response; the dump is never printed before or between blocks, and is
\* printed also when results is empty.
C8_DumpAfterBlocks ==
    /\ \A d \in DumpPositions : d = Len(out) /\ pc = "exited"
    /\ (pc = "exited" /\ SuccessfulResponse) =>
        /\ Len(out) >= 11
        /\ LabelsFrom(3, 7) =
              <<"Status: {}", "Request ID: {}", "{}*{}", "Total contracts returned: {}", "">>
        /\ out[5].args = <<"-", "80">>
        /\ out[6].args = <<ToString(NResults(data))>>
        /\ CountLabel("Contract: {}") = NResults(data)
        /\ LabelsFrom(Len(out) - 3, Len(out)) =
              <<"{}*{}", "Raw JSON Response:", "{}*{}", "json.dumps">>
        /\ out[Len(out) - 3].args = <<"=", "80">>
        /\ out[Len(out) - 1].args = <<"=", "80">>
        /\ out[Len(out)].args = <<data>>
        /\ \A i \in 8..(Len(out) - 4) : out[i].by = Renderer

\* An exception left the module: no except clause reported it.
UnhandledError == exc # NoExc /\ HttpReports = {} /\ OtherReports = {}

\* C9: the process exits with status 0 on a successful render and with a
\* non-zero status on any unhandled error.
C9_ExitStatus ==
    /\ pc # "exited" => exit = NotExited
    /\ pc = "exited" =>
        /\ Cardinality(exit) = 1
        /\ DumpPositions # {} => exit = {0}
        /\ UnhandledError => 0 \notin exit

C9_Witness ==
    /\ pc = "exited"
    /\ exc.cls = "KeyboardInterrupt"
    /\ UnhandledError
    /\ exit = {130}

\* The failures that are not an HTTP status >= 400 and that an except
\* clause of the driver takes.
OtherFailures == {"ConnectionError", "JSONDecodeError", "AttributeError", "TypeError"}

\* C10: a failure that is not an HTTP >= 400 status (transport failure,
\* decode failure, exception while rendering) is reported with exactly one
\* "Error:" line and no "HTTP Error:" line; in every run at most one error
\* report is written, nothing is written after it, and a run that writes
\* an error report never writes the raw dump.
C10_OneErrorReport ==
    /\ (pc = "exited" /\ exc.cls \in OtherFailures) =>
        /\ CountLabel("Error: {}") = 1
        /\ CountLabel("HTTP Error: {}") = 0
        /\ out[Len(out)].label = "Error: {}"
        /\ out[Len(out)].args = <<exc.detail>>
    /\ Cardinality(HttpReports \cup OtherReports) <= 1
    /\ \A p \in OtherReports : p = Len(out)
    /\ \A p \in HttpReports : p + 1 = Len(out) /\ out[p + 1].label = "Response: {}"
    /\ (HttpReports \cup OtherReports) # {} => DumpPositions = {}

C10_Witness ==
    /\ pc = "exited"
    /\ exc.cls = "AttributeError"
    /\ Returned
    /\ CountLabel("Contract: {}") = 1
    /\ out[Len(out)].label = "Error: {}"

(***************************************************************************)
(* The renderer on documents that keep to the types of the data model.     *)
(***************************************************************************)
\* The document has the types of the data model wherever a key is present:
\* results is a list, details, greeks, last_quote and last_trade are
\* mappings, contract_type is a string.
WellTyped(d) ==
    /\ HasLen(ResultsOf(d))
    /\ \A i \in 1..NResults(d) :
          LET option == ResultsOf(d).items[i]
          IN /\ \A sub \in {"details", "greeks", "last_quote", "last_trade"}
                              \cap DOMAIN option.m : option.m[sub].t = "map"
             /\ Received(option, "details", "contract_type").t = "str"

\* On such documents the statements of C3, C4, C5 and C8 hold.
TypedDocumentsRenderFully ==
    (Returned /\ WellTyped(data)) =>
        /\ C3_BlockPerResult
        /\ C4_ElevenLabels
        /\ C5_QuoteTradeLines
        /\ C8_DumpAfterBlocks

\* Line 50 prints contract_type upper-cased, not as received.
TypeIsUpperCased ==
    (pc = "exited" /\ Returned /\ WellTyped(data)) =>
        \A i \in 1..NResults(data) :
            ArgsIn(Block(i), "  Type: {}") =
                <<UpperStr(Fmt(Received(ResultsOf(data).items[i], "details", "contract_type")))>>

====
